---- MODULE Spec2Model ----
(***************************************************************************)
(* Video-Downloader: the scrape loop of video_scraper.py                   *)
(* (VideoScraper.scrape_videos, get_video_info and their helpers), the     *)
(* link-list writer save_download_links and the caller main().             *)
(*                                                                         *)
(* Text (titles, filenames, URLs, file contents) is a sequence of          *)
(* one-character strings, so that the string functions of the code are     *)
(* computed character by character.                                        *)
(***************************************************************************)
EXTENDS Integers, Sequences, FiniteSets, TLC

VARIABLES
    SEASON_EPISODES,   \* config.py: episodes per season (index 0 = season 1)
    STARTING_SEASON,   \* config.py
    STARTING_EPISODE,  \* config.py
    END_VIDEO_ID,      \* config.py
    MAX_RETRIES,       \* config.py
    pc,                \* where main()/scrape_videos stands
    video_id,          \* scrape_videos: loop variable
    season,            \* scrape_videos: cursor
    episode,           \* scrape_videos: cursor
    videos,            \* scrape_videos: result list
    attempt,           \* get_video_info: loop variable (0-based)
    response,          \* get_video_info: what the last session.get produced
    video_info,        \* scrape_videos: what get_video_info returned
    slept,             \* window of the time.sleep made by the last step
    skipped,           \* ids of the "Failed to extract video" warnings logged
    calls,             \* arguments of the get_video_info calls made so far
    file,              \* content of DOWNLOAD_LINKS_FILE
    saves,             \* number of save_download_links calls
    save_failed,       \* "Failed to save download links" was logged
    download_links,    \* DownloadManager.download_links
    san_filename,      \* _sanitize_filename: its parameter and local, filename
    passes             \* number of _sanitize_filename calls made on it

vars == <<SEASON_EPISODES, STARTING_SEASON, STARTING_EPISODE, END_VIDEO_ID,
          MAX_RETRIES, pc, video_id, season, episode, videos, attempt,
          response, video_info, slept, skipped, calls, file, saves,
          save_failed, download_links, san_filename, passes>>

(***************************************************************************)
(* Bounds of the model and program constants.                              *)
(***************************************************************************)
\* Largest number of identifiers in the configured range.
MaxIds == 5
\* Largest configured MAX_RETRIES.
MaxRetries == 3
\* Longest title text the title functions are run on.
MaxTitleLen == 4

\* config.py START_VIDEO_ID (the value of the spec's end-to-end scenario).
START_VIDEO_ID == 100
\* config.py MIN_HTML_LENGTH.
MIN_HTML_LENGTH == 1000
\* config.py MIN_DELAY, MAX_DELAY.
MIN_DELAY == 3
MAX_DELAY == 7

\* Optional values: Python's None is the empty sequence, a value x is <<x>>.
None == <<>>
Some(x) == <<x>>

\* Season tables the configuration is drawn from.
SeasonTables == {<<2>>, <<2, 3>>, <<1, 1>>, <<3, 1>>}
\* Starting positions the configuration is drawn from: valid slots, episodes
\* beyond a season's count, seasons beyond the table.
StartSeasons == {1, 2, 3}
StartEpisodes == {1, 2, 4}

(***************************************************************************)
(* Text helpers: Python's str.strip, str.split, str.join, str.replace.     *)
(***************************************************************************)
Whitespace == {" ", "\t", "\n"}

RECURSIVE LStrip(_)
LStrip(s) ==
    IF s # <<>> /\ Head(s) \in Whitespace THEN LStrip(Tail(s)) ELSE s

RECURSIVE RStrip(_)
RStrip(s) ==
    IF s # <<>> /\ s[Len(s)] \in Whitespace
    THEN RStrip(SubSeq(s, 1, Len(s) - 1))
    ELSE s

Strip(s) == RStrip(LStrip(s))

\* s.split(): the maximal runs of non-whitespace characters, in order.
RECURSIVE SplitFrom(_, _, _, _)
SplitFrom(s, i, cur, acc) ==
    IF i > Len(s)
    THEN IF cur = <<>> THEN acc ELSE Append(acc, cur)
    ELSE IF s[i] \in Whitespace
         THEN SplitFrom(s, i + 1, <<>>, IF cur = <<>> THEN acc ELSE Append(acc, cur))
         ELSE SplitFrom(s, i + 1, Append(cur, s[i]), acc)

Split(s) == SplitFrom(s, 1, <<>>, <<>>)

\* ' '.join(words)
RECURSIVE JoinSpace(_)
JoinSpace(words) ==
    IF words = <<>> THEN <<>>
    ELSE IF Len(words) = 1 THEN words[1]
    ELSE words[1] \o <<" ">> \o JoinSpace(Tail(words))

\* config.py FILENAME_REPLACE_CHARS: every key is replaced by "_".
FILENAME_REPLACE_CHARS == {"\\", "/", ":", "*", "?", "\"", "<", ">", "|"}

\* Mutant of SanitizeFilename: the characters are replaced, the whitespace
\* is left as it is.
SanitizeFilename_ReplaceOnly(filename) ==
    [i \in DOMAIN filename |->
        IF filename[i] \in FILENAME_REPLACE_CHARS THEN "_" ELSE filename[i]]

\* str.replace("  ", " "): each pair of spaces, left to right, becomes one.
RECURSIVE ReplacePairs(_)
ReplacePairs(t) ==
    IF Len(t) < 2 THEN t
    ELSE IF t[1] = " " /\ t[2] = " "
         THEN <<" ">> \o ReplacePairs(SubSeq(t, 3, Len(t)))
         ELSE <<t[1]>> \o ReplacePairs(Tail(t))

\* Mutant of SanitizeFilename: filename.replace("  ", " ") for the
\* split and join.
SanitizeFilename_ReplacesPairs(filename) ==
    ReplacePairs(SanitizeFilename_ReplaceOnly(filename))

\* _sanitize_filename
SanitizeFilename(filename) ==
    LET replaced == [i \in DOMAIN filename |->
                        IF filename[i] \in FILENAME_REPLACE_CHARS
                        THEN "_" ELSE filename[i]]
    IN  JoinSpace(Split(replaced))

DigitChars == <<"0", "1", "2", "3", "4", "5", "6", "7", "8", "9">>

RECURSIVE Decimal(_)
Decimal(n) ==
    IF n < 10 THEN <<DigitChars[n + 1]>>
    ELSE Append(Decimal(n \div 10), DigitChars[(n % 10) + 1])

\* format spec 02d for n >= 0: decimal, zero-padded to width 2.
Pad2(n) == IF n < 10 THEN <<"0">> \o Decimal(n) ELSE Decimal(n)

\* _create_filename with FILENAME_FORMAT "S{season:02d}-E{episode:02d}-{title}.mp4"
CreateFilename(s, e, title) ==
    <<"S">> \o Pad2(s) \o <<"-", "E">> \o Pad2(e) \o <<"-">> \o title
        \o <<".", "m", "p", "4">>

UnknownTitle == <<"U", "n", "k", "n", "o", "w", "n", "_", "T", "i", "t", "l", "e">>

\* _extract_title: elements[i] is what TITLE_SELECTORS[i] finds in the soup,
\* None (no such element) or Some(the element's text).
RECURSIVE ExtractTitle(_)
ExtractTitle(elements) ==
    IF elements = <<>> THEN UnknownTitle
    ELSE IF Head(elements) # None /\ Strip(Head(elements)[1]) # <<>>
         THEN SanitizeFilename(Strip(Head(elements)[1]))
         ELSE ExtractTitle(Tail(elements))

\* Mutant of ExtractVideoUrl: the last pattern with a match wins.
ExtractVideoUrl_LastPattern(findall) ==
    LET hit == {i \in DOMAIN findall : findall[i] # <<>>}
    IN  IF hit = {} THEN <<>>
        ELSE <<findall[CHOOSE i \in hit : \A j \in hit : j <= i][1]>>

\* _extract_video_url: findall[i] is re.findall(VIDEO_URL_PATTERNS[i], html).
RECURSIVE ExtractVideoUrl(_)
ExtractVideoUrl(findall) ==
    IF findall = <<>> THEN None
    ELSE IF Head(findall) # <<>> THEN Some(Head(findall)[1])
         ELSE ExtractVideoUrl(Tail(findall))

\* _is_page_loaded
IsPageLoaded(text_len) == text_len >= MIN_HTML_LENGTH

\* _handle_request_error: whether to retry.
HandleRequestError(r) ==
    IF r.status_code # 200 THEN TRUE
    ELSE IF ~IsPageLoaded(r.text_len) THEN TRUE
    ELSE FALSE

(***************************************************************************)
(* What session.get can produce for one attempt.                           *)
(***************************************************************************)
\* A media URL matched by VIDEO_URL_PATTERNS[0], and a second one later in
\* the same page.
Url1 == <<"h", "t", "t", "p", "s", ":", "/", "/", "s", "3", ".", "7", "l", "e",
          "a", "r", "n", ".", "c", "o", "m", "/", "a", ".", "m", "p", "4">>
Url2 == <<"h", "t", "t", "p", "s", ":", "/", "/", "s", "3", ".", "7", "l", "e",
          "a", "r", "n", ".", "c", "o", "m", "/", "b", ".", "m", "p", "4">>

\* The text of an h1 element: unsafe characters and stray whitespace.
RawTitle == <<" ", "a", "/", "b", " ", " ", "c", "\n">>

NoResponse ==
    [kind |-> "none", status_code |-> 0, text_len |-> 0, findall |-> <<>>,
     elements |-> <<>>]

Page(status, len, matches, h1) ==
    [kind |-> "response", status_code |-> status, text_len |-> len,
     findall |-> <<matches>>, elements |-> <<h1>>]

Raised(kind) ==
    [kind |-> kind, status_code |-> 0, text_len |-> 0, findall |-> <<>>,
     elements |-> <<>>]

Responses ==
    { Page(200, MIN_HTML_LENGTH, <<Url1, Url2>>, Some(RawTitle)),  \* a full page
      Page(200, MIN_HTML_LENGTH, <<Url1>>, None),                  \* no h1
      Page(404, MIN_HTML_LENGTH, <<Url1>>, Some(RawTitle)),        \* bad status
      Page(200, MIN_HTML_LENGTH - 1, <<Url1>>, Some(RawTitle)),    \* short body
      Page(200, MIN_HTML_LENGTH, <<>>, Some(RawTitle)),            \* no URL
      Raised("timeout"),              \* requests.exceptions.Timeout
      Raised("error") }               \* any other Exception in the try block

\* Windows of the random.uniform delays.
NoSleep == <<>>
GenericBackoff == <<2, 4>>
TimeoutBackoff == <<5, 8>>
Pacing == <<MIN_DELAY, MAX_DELAY>>

(***************************************************************************)
(* get_video_info: one iteration of "for attempt in range(MAX_RETRIES)".   *)
(***************************************************************************)
\* Mutant of CanRetry: gives up one attempt early.
CanRetry_GivesUpEarly(att) == att < MAX_RETRIES - 2

\* "if attempt < MAX_RETRIES - 1": a retry is left, so sleep and continue.
CanRetry(att) == att < MAX_RETRIES - 1

\* Mutant of AttemptBody: a page without a title is retried like a page
\* without a URL.
AttemptBody_RetriesWithoutTitle(r, att, s, e) ==
    LET Continue(w) == [ctl |-> "continue", info |-> <<>>, sleep |-> w]
        Return(i)   == [ctl |-> "return", info |-> i, sleep |-> <<>>]
    IN  IF r.kind = "timeout"
        THEN IF CanRetry(att) THEN Continue(<<5, 8>>) ELSE Continue(<<>>)
        ELSE IF r.kind = "error"
        THEN IF CanRetry(att) THEN Continue(<<2, 4>>) ELSE Continue(<<>>)
        ELSE IF HandleRequestError(r)
        THEN IF CanRetry(att) THEN Continue(<<2, 4>>) ELSE Return(<<>>)
        ELSE LET video_url == ExtractVideoUrl(r.findall)
                 title == ExtractTitle(r.elements)
             IN  IF video_url = <<>> \/ title = UnknownTitle
                 THEN IF CanRetry(att) THEN Continue(<<2, 4>>) ELSE Return(<<>>)
                 ELSE Return(<<[url |-> video_url[1],
                                filename |-> CreateFilename(s, e, title)]>>)

\* Mutant of AttemptBody: a timeout sleeps the window of the other failures.
AttemptBody_GenericAfterTimeout(r, att, s, e) ==
    LET Continue(w) == [ctl |-> "continue", info |-> <<>>, sleep |-> w]
        Return(i)   == [ctl |-> "return", info |-> i, sleep |-> <<>>]
    IN  IF r.kind = "timeout" \/ r.kind = "error"
        THEN IF CanRetry(att) THEN Continue(<<2, 4>>) ELSE Continue(<<>>)
        ELSE IF HandleRequestError(r)
        THEN IF CanRetry(att) THEN Continue(<<2, 4>>) ELSE Return(<<>>)
        ELSE LET video_url == ExtractVideoUrl(r.findall)
             IN  IF video_url = <<>>
                 THEN IF CanRetry(att) THEN Continue(<<2, 4>>) ELSE Return(<<>>)
                 ELSE Return(<<[url |-> video_url[1],
                                filename |-> CreateFilename(s, e, ExtractTitle(r.elements))]>>)

\* What the loop body does with the outcome r of session.get on attempt att:
\* ctl "return" leaves get_video_info with info; ctl "continue" goes to the
\* next iteration of the for loop (by continue, or by falling out of an
\* except clause); sleep is the window of the time.sleep made, if any.
AttemptBody(r, att, s, e) ==
    LET Continue(w) == [ctl |-> "continue", info |-> None, sleep |-> w]
        Return(i)   == [ctl |-> "return", info |-> i, sleep |-> NoSleep]
    IN  IF r.kind = "timeout"
        THEN IF CanRetry(att) THEN Continue(TimeoutBackoff) ELSE Continue(NoSleep)
        ELSE IF r.kind = "error"
        THEN IF CanRetry(att) THEN Continue(GenericBackoff) ELSE Continue(NoSleep)
        ELSE IF HandleRequestError(r)
        THEN IF CanRetry(att) THEN Continue(GenericBackoff) ELSE Return(None)
        ELSE LET video_url == ExtractVideoUrl(r.findall)
             IN  IF video_url = None
                 THEN IF CanRetry(att) THEN Continue(GenericBackoff) ELSE Return(None)
                 ELSE Return(Some([url |-> video_url[1],
                                   filename |-> CreateFilename(s, e, ExtractTitle(r.elements))]))

(***************************************************************************)
(* scrape_videos: the body of "for video_id in range(...)".                *)
(***************************************************************************)
\* Python's seq[i] for a 0-based i: negative indexes count from the end, an
\* index outside -len..len-1 raises IndexError.
PyIndexOk(seq, i) == -Len(seq) <= i /\ i < Len(seq)
PyIndex(seq, i) == IF i >= 0 THEN seq[i + 1] ELSE seq[Len(seq) + i + 1]

\* The loop body with its parts as parameters, for the mutants below:
\* warnAlways logs the skip warning on success too, advanceOnFailure moves
\* the cursor after a failed identifier, early (-1, 0 or 1) moves the rollover
\* test one episode forward, breakOnFailure leaves the loop after a failed identifier,
\* prepend inserts the record at the front.
LoopBodyVariant(vs, vid, info, s, e, warnAlways, advanceOnFailure, early, breakOnFailure, prepend) ==
    LET rec == [url |-> info[1].url, filename |-> info[1].filename,
                video_id |-> vid, season |-> s, episode |-> e]
        vs1 == IF info # None
               THEN IF prepend THEN <<rec>> \o vs ELSE Append(vs, rec)
               ELSE vs
        skip == warnAlways \/ info = None
        e1 == IF info = None /\ ~advanceOnFailure THEN e ELSE e + 1
        out(s2, e2, ctl, w) ==
            [videos |-> vs1, skip |-> skip, season |-> s2, episode |-> e2,
             ctl |-> IF breakOnFailure /\ info = None /\ ctl = "next"
                     THEN "break" ELSE ctl,
             sleep |-> IF breakOnFailure /\ info = None THEN <<>> ELSE w]
    IN  IF ~(-Len(SEASON_EPISODES) <= s - 1 /\ s - 1 < Len(SEASON_EPISODES))
        THEN out(s, e1, "raise", <<>>)
        ELSE IF e1 + early > SEASON_EPISODES[s]
        THEN IF s + 1 > Len(SEASON_EPISODES)
             THEN out(s + 1, 1, "break", <<>>)
             ELSE out(s + 1, 1, "next", <<MIN_DELAY, MAX_DELAY>>)
        ELSE out(s, e1, "next", <<MIN_DELAY, MAX_DELAY>>)

\* Mutant: the skip warning is logged for every identifier.
LoopBody_WarnsAlways(vs, vid, info, s, e) ==
    LoopBodyVariant(vs, vid, info, s, e, TRUE, TRUE, 0, FALSE, FALSE)
\* Mutant: the cursor advances inside the success branch only.
LoopBody_AdvanceOnSuccessOnly(vs, vid, info, s, e) ==
    LoopBodyVariant(vs, vid, info, s, e, FALSE, FALSE, 0, FALSE, FALSE)
\* Mutant: ">=" for ">" in the rollover test.
LoopBody_RollsOverEarly(vs, vid, info, s, e) ==
    LoopBodyVariant(vs, vid, info, s, e, FALSE, TRUE, 1, FALSE, FALSE)
\* Mutant: the rollover test lets one episode more through.
LoopBody_RollsOverLate(vs, vid, info, s, e) ==
    LoopBodyVariant(vs, vid, info, s, e, FALSE, TRUE, -1, FALSE, FALSE)
\* Mutant: a failed identifier ends the loop.
LoopBody_BreaksOnFailure(vs, vid, info, s, e) ==
    LoopBodyVariant(vs, vid, info, s, e, FALSE, TRUE, 0, TRUE, FALSE)
\* Mutant: videos.insert(0, ...) for videos.append(...).
LoopBody_Prepends(vs, vid, info, s, e) ==
    LoopBodyVariant(vs, vid, info, s, e, FALSE, TRUE, 0, FALSE, TRUE)

\* Lines 230-256: append the record or log the skip, advance the cursor,
\* break on season overflow, otherwise sleep the pacing delay.  ctl "raise"
\* is the IndexError of SEASON_EPISODES[season - 1].
LoopBody(vs, vid, info, s, e) ==
    LET vs1 == IF info # None
               THEN Append(vs, [url |-> info[1].url, filename |-> info[1].filename,
                                video_id |-> vid, season |-> s, episode |-> e])
               ELSE vs
        skip == info = None
        e1 == e + 1
    IN  IF ~PyIndexOk(SEASON_EPISODES, s - 1)
        THEN [videos |-> vs1, skip |-> skip, season |-> s, episode |-> e1,
              ctl |-> "raise", sleep |-> NoSleep]
        ELSE IF e1 > PyIndex(SEASON_EPISODES, s - 1)
        THEN IF s + 1 > Len(SEASON_EPISODES)
             THEN [videos |-> vs1, skip |-> skip, season |-> s + 1, episode |-> 1,
                   ctl |-> "break", sleep |-> NoSleep]
             ELSE [videos |-> vs1, skip |-> skip, season |-> s + 1, episode |-> 1,
                   ctl |-> "next", sleep |-> Pacing]
        ELSE [videos |-> vs1, skip |-> skip, season |-> s, episode |-> e1,
              ctl |-> "next", sleep |-> Pacing]

(***************************************************************************)
(* save_download_links and main().                                         *)
(***************************************************************************)
\* The strings save_download_links hands to f.write, in order.
RECURSIVE WriteCalls(_)
WriteCalls(vs) ==
    IF vs = <<>> THEN <<>>
    ELSE << Head(vs).url \o <<"\n">>,
            <<" ", " ", "o", "u", "t", "=">> \o Head(vs).filename \o <<"\n", "\n">> >>
         \o WriteCalls(Tail(vs))

RECURSIVE Concat(_)
Concat(ws) == IF ws = <<>> THEN <<>> ELSE Head(ws) \o Concat(Tail(ws))

\* The file after a save_download_links that raised nothing.
FileText(vs) == Concat(WriteCalls(vs))

\* The file after save_download_links(vs) on a file holding old: written in
\* full, or, when open or a write raises, untouched (open failed) or cut
\* after some of the writes.
SaveOutcomes(vs, old) ==
    {[file |-> FileText(vs), failed |-> FALSE], [file |-> old, failed |-> TRUE]}
    \cup {[file |-> Concat(SubSeq(WriteCalls(vs), 1, k)), failed |-> TRUE] :
             k \in 0..Len(WriteCalls(vs))}

\* Mutant of MainSaves: the link list is saved whatever the result.
MainSaves_Always(vs) == TRUE

\* main(): "if videos:" decides whether save_download_links is called.
MainSaves(vs) == vs # <<>>

\* The link list an earlier run left in DOWNLOAD_LINKS_FILE.
StaleFile ==
    FileText(<<[url |-> Url2, filename |-> CreateFilename(1, 1, <<"O", "l", "d">>),
                video_id |-> START_VIDEO_ID, season |-> 1, episode |-> 1]>>)

(***************************************************************************)
(* The state machine.                                                      *)
(***************************************************************************)
Init ==
    /\ SEASON_EPISODES \in SeasonTables
    /\ STARTING_SEASON \in StartSeasons
    /\ STARTING_EPISODE \in StartEpisodes
    /\ END_VIDEO_ID \in (START_VIDEO_ID - 1)..(START_VIDEO_ID + MaxIds - 1)
    /\ MAX_RETRIES \in 1..MaxRetries
    /\ pc = "start"
    /\ video_id = START_VIDEO_ID
    /\ season = STARTING_SEASON
    /\ episode = STARTING_EPISODE
    /\ videos = <<>>
    /\ attempt = 0
    /\ response = NoResponse
    /\ video_info = None
    /\ slept = NoSleep
    /\ skipped = <<>>
    /\ calls = <<>>
    /\ file = StaleFile
    /\ saves = 0
    /\ save_failed = FALSE
    /\ download_links = <<>>
    /\ san_filename = <<>>
    /\ passes = 0

Config == <<SEASON_EPISODES, STARTING_SEASON, STARTING_EPISODE, END_VIDEO_ID,
            MAX_RETRIES>>

\* What the scraper never touches: the download manager's list and the
\* state of a _sanitize_filename call made on its own.
Apart == <<download_links, san_filename, passes>>

\* The head of the for loop for identifier vid with the cursor at (s, e):
\* call get_video_info(vid, s, e), or leave the loop and return videos.
LoopHead(vid, s, e) ==
    IF vid <= END_VIDEO_ID
    THEN /\ pc' = "attempt"
         /\ video_id' = vid
         /\ attempt' = 0
         /\ calls' = Append(calls, <<vid, s, e>>)
    ELSE /\ pc' = "returned"
         /\ UNCHANGED <<video_id, attempt, calls>>

\* main() creates the scraper and calls scrape_videos: lines 221-228.
Start ==
    /\ pc = "start"
    /\ videos' = <<>>
    /\ season' = STARTING_SEASON
    /\ episode' = STARTING_EPISODE
    /\ LoopHead(START_VIDEO_ID, STARTING_SEASON, STARTING_EPISODE)
    /\ slept' = NoSleep
    /\ UNCHANGED <<Config, response, video_info, skipped, file, saves, save_failed,
                   Apart>>

\* One iteration of the retry loop of get_video_info, lines 154-212, with
\* the outcome of session.get drawn from R.
AttemptFrom(R) ==
    /\ pc = "attempt"
    /\ \E r \in R :
         LET b == AttemptBody(r, attempt, season, episode)
         IN  /\ response' = r
             /\ slept' = b.sleep
             /\ IF b.ctl = "return"
                THEN /\ video_info' = b.info
                     /\ pc' = "handle"
                     /\ UNCHANGED attempt
                ELSE IF attempt + 1 < MAX_RETRIES
                THEN /\ attempt' = attempt + 1
                     /\ UNCHANGED <<pc, video_info>>
                ELSE /\ video_info' = None       \* lines 211-212
                     /\ pc' = "handle"
                     /\ UNCHANGED attempt
    /\ UNCHANGED <<Config, video_id, season, episode, videos, skipped, calls,
                   file, saves, save_failed, Apart>>

Attempt == AttemptFrom(Responses)

\* The rest of the scrape loop's body and the next loop head: lines 230-259.
Handle ==
    /\ pc = "handle"
    /\ LET b == LoopBody(videos, video_id, video_info, season, episode)
       IN  /\ videos' = b.videos
           /\ skipped' = IF b.skip THEN Append(skipped, video_id) ELSE skipped
           /\ season' = b.season
           /\ episode' = b.episode
           /\ slept' = b.sleep
           /\ IF b.ctl = "raise"
              THEN /\ pc' = "raised"
                   /\ UNCHANGED <<video_id, attempt, calls>>
              ELSE IF b.ctl = "break"
              THEN /\ pc' = "returned"
                   /\ UNCHANGED <<video_id, attempt, calls>>
              ELSE LoopHead(video_id + 1, b.season, b.episode)
    /\ UNCHANGED <<Config, response, video_info, file, saves, save_failed, Apart>>

\* Mutant of Main: save_download_links lets the failure of a write out.
Main_PropagatesFailure ==
    /\ pc = "returned"
    /\ IF MainSaves(videos)
       THEN /\ saves' = saves + 1
            /\ \E o \in SaveOutcomes(videos, file) :
                   /\ file' = o.file
                   /\ save_failed' = o.failed
                   /\ pc' = IF o.failed THEN "raised" ELSE "done"
       ELSE /\ pc' = "done"
            /\ UNCHANGED <<file, saves, save_failed>>
    /\ UNCHANGED <<Config, video_id, season, episode, videos, attempt, response,
                   video_info, slept, skipped, calls, Apart>>

\* main() after scrape_videos returned: lines 286-293.
Main ==
    /\ pc = "returned"
    /\ pc' = "done"
    /\ IF MainSaves(videos)
       THEN /\ saves' = saves + 1
            /\ \E o \in SaveOutcomes(videos, file) :
                   /\ file' = o.file
                   /\ save_failed' = o.failed
       ELSE UNCHANGED <<file, saves, save_failed>>
    /\ UNCHANGED <<Config, video_id, season, episode, videos, attempt, response,
                   video_info, slept, skipped, calls, Apart>>

Next == Start \/ Attempt \/ Handle \/ Main

Spec == Init /\ [][Next]_vars

(***************************************************************************)
(* The configured URL pattern, and the pages of the richer runs.           *)
(***************************************************************************)
UpperLetters == <<"A", "B", "C", "D", "E", "F", "G", "H", "I", "J", "K", "L", "M", "N", "O", "P", "Q", "R", "S", "T", "U", "V", "W", "X", "Y", "Z">>
LowerLetters == <<"a", "b", "c", "d", "e", "f", "g", "h", "i", "j", "k", "l", "m", "n", "o", "p", "q", "r", "s", "t", "u", "v", "w", "x", "y", "z">>

\* The case folding re.IGNORECASE compares with.
Lower(c) ==
    IF \E i \in DOMAIN UpperLetters : UpperLetters[i] = c
    THEN LowerLetters[CHOOSE i \in DOMAIN UpperLetters : UpperLetters[i] = c]
    ELSE c

LowerText(t) == [i \in DOMAIN t |-> Lower(t[i])]

\* str.startswith
StartsWith(t, prefix) ==
    Len(t) >= Len(prefix) /\ SubSeq(t, 1, Len(prefix)) = prefix

UrlHost == <<"h", "t", "t", "p", "s", ":", "/", "/", "s", "3", ".", "7", "l", "e",
             "a", "r", "n", ".", "c", "o", "m", "/">>
UrlSuffix == <<".", "m", "p", "4">>

\* Whether u is a match of VIDEO_URL_PATTERNS[0],
\* https://s3\.7learn\.com/[^"\s]+\.mp4, under re.IGNORECASE.
MatchesVideoUrlPattern(u) ==
    /\ Len(u) >= Len(UrlHost) + 1 + Len(UrlSuffix)
    /\ LowerText(SubSeq(u, 1, Len(UrlHost))) = UrlHost
    /\ LowerText(SubSeq(u, Len(u) - Len(UrlSuffix) + 1, Len(u))) = UrlSuffix
    /\ \A i \in (Len(UrlHost) + 1)..Len(u) : u[i] \notin (Whitespace \cup {"\""})

\* The same address as Url1 as a page may spell it: scheme in capitals.
UrlUpper == <<"H", "T", "T", "P", "S", ":", "/", "/", "s", "3", ".", "7", "l", "e",
              "a", "r", "n", ".", "c", "o", "m", "/", "a", ".", "m", "p", "4">>
\* Another host: no match of the pattern.
UrlElsewhere == <<"h", "t", "t", "p", "s", ":", "/", "/", "x", "/", "a", ".", "m", "p", "4">>

\* The texts re.findall can return for the pattern, among the candidates.
PatternUrls ==
    {u \in {Url1, Url2, UrlUpper, UrlElsewhere} : MatchesVideoUrlPattern(u)}

\* A page seen through a pattern list of any length and a selector list of
\* any length.
PageOf(status, len, findall, elements) ==
    [kind |-> "response", status_code |-> status, text_len |-> len,
     findall |-> findall, elements |-> elements]

\* re.findall of a two-pattern VIDEO_URL_PATTERNS on a page: no match at
\* all, only the second pattern matches, both match (the first one twice),
\* the first one matches a URL spelt in capitals.
FindAlls ==
    {fa \in { <<<<>>, <<>>>>,
              <<<<>>, <<Url2, Url1>>>>,
              <<<<Url1, Url2>>, <<Url2>>>>,
              <<<<UrlUpper>>, <<>>>> } :
        \A i \in DOMAIN fa : \A j \in DOMAIN fa[i] : fa[i][j] \in PatternUrls}

\* What the h1 selector finds: nothing, blank text, a title to sanitize.
PageTitles == {None, Some(<<" ", "\n">>), Some(RawTitle)}

RichResponses ==
    {PageOf(200, MIN_HTML_LENGTH, fa, <<h1>>) : fa \in FindAlls, h1 \in PageTitles}
    \cup { PageOf(404, MIN_HTML_LENGTH, <<<<Url1>>, <<>>>>, <<Some(RawTitle)>>),
           PageOf(200, MIN_HTML_LENGTH - 1, <<<<Url1>>, <<>>>>, <<Some(RawTitle)>>),
           Raised("timeout"),
           Raised("error") }

(***************************************************************************)
(* DownloadManager.load_links.                                             *)
(***************************************************************************)
\* str.split(sep) for a one-character sep: the pieces between the
\* separators, empty ones included (one piece more than separators).
SplitOn(t, sep) ==
    LET at == {i \in DOMAIN t : t[i] = sep}
        \* the position of the k-th separator; 0 and Len(t) + 1 bound the text
        nth(k) == IF k = 0 THEN 0
                  ELSE IF k > Cardinality(at) THEN Len(t) + 1
                  ELSE CHOOSE i \in at : Cardinality({j \in at : j <= i}) = k
    IN  [k \in 1..(Cardinality(at) + 1) |-> SubSeq(t, nth(k - 1) + 1, nth(k) - 1)]

HttpsPrefix == <<"h", "t", "t", "p", "s", ":", "/", "/">>
OutPrefix == <<"o", "u", "t", "=">>

\* The loop over the lines: lines 65-77.
RECURSIVE ParseLines(_, _, _)
ParseLines(lines, current_url, links) ==
    IF lines = <<>> THEN links
    ELSE LET line == Strip(Head(lines))
         IN  IF StartsWith(line, HttpsPrefix)
             THEN ParseLines(Tail(lines), Some(line), links)
             ELSE IF StartsWith(line, OutPrefix) /\ current_url # None
             THEN ParseLines(Tail(lines), None,
                             Append(links, [url |-> current_url[1],
                                            filename |-> SubSeq(line, 5, Len(line))]))
             ELSE ParseLines(Tail(lines), current_url, links)

\* What load_links appends to the empty download_links for a file content.
LoadLinks(content) == ParseLines(SplitOn(Strip(content), "\n"), None, <<>>)

\* DownloadManager(): __init__ and load_links on the link list file.
LoadLinksStep ==
    /\ pc = "done"
    /\ pc' = "loaded"
    /\ download_links' = LoadLinks(file)
    /\ UNCHANGED <<Config, video_id, season, episode, videos, attempt, response,
                   video_info, slept, skipped, calls, file, saves, save_failed,
                   san_filename, passes>>

(***************************************************************************)
(* The whole pipeline on richer pages: a two-pattern URL list, blank and   *)
(* missing titles, URLs in capitals; then the download manager reads the   *)
(* link list.                                                              *)
(***************************************************************************)
InitPipeline ==
    /\ SEASON_EPISODES \in {<<2>>, <<1, 1>>}
    /\ STARTING_SEASON = 1
    /\ STARTING_EPISODE = 1
    /\ END_VIDEO_ID \in {START_VIDEO_ID, START_VIDEO_ID + 1}
    /\ MAX_RETRIES \in {1, 2}
    /\ pc = "start"
    /\ video_id = START_VIDEO_ID
    /\ season = STARTING_SEASON
    /\ episode = STARTING_EPISODE
    /\ videos = <<>>
    /\ attempt = 0
    /\ response = NoResponse
    /\ video_info = None
    /\ slept = NoSleep
    /\ skipped = <<>>
    /\ calls = <<>>
    /\ file = StaleFile
    /\ saves = 0
    /\ save_failed = FALSE
    /\ download_links = <<>>
    /\ san_filename = <<>>
    /\ passes = 0

RichAttempt == AttemptFrom(RichResponses)

NextPipeline == Start \/ RichAttempt \/ Handle \/ Main \/ LoadLinksStep

PipelineSpec == InitPipeline /\ [][NextPipeline]_vars

(***************************************************************************)
(* The title path on every short text: one identifier, one attempt, the    *)
(* h1 text drawn from all texts over TitleAlphabet up to MaxTitleLen.      *)
(***************************************************************************)
TitleAlphabet == {"a", " ", "\n", "/", "?"}
TitleTexts == UNION {[1..n -> TitleAlphabet] : n \in 0..MaxTitleLen}

TitlePages ==
    {PageOf(200, MIN_HTML_LENGTH, <<<<Url1>>>>, <<h1>>) :
        h1 \in {None} \cup {Some(t) : t \in TitleTexts}}

InitTitle ==
    /\ SEASON_EPISODES = <<2>>
    /\ STARTING_SEASON \in {1, 12}
    /\ STARTING_EPISODE \in {1, 100}
    /\ END_VIDEO_ID = START_VIDEO_ID
    /\ MAX_RETRIES = 1
    /\ pc = "start"
    /\ video_id = START_VIDEO_ID
    /\ season = STARTING_SEASON
    /\ episode = STARTING_EPISODE
    /\ videos = <<>>
    /\ attempt = 0
    /\ response = NoResponse
    /\ video_info = None
    /\ slept = NoSleep
    /\ skipped = <<>>
    /\ calls = <<>>
    /\ file = StaleFile
    /\ saves = 0
    /\ save_failed = FALSE
    /\ download_links = <<>>
    /\ san_filename = <<>>
    /\ passes = 0

TitleAttempt == AttemptFrom(TitlePages)

NextTitle == Start \/ TitleAttempt \/ Handle

TitleSpec == InitTitle /\ [][NextTitle]_vars

(***************************************************************************)
(* _sanitize_filename on its own, applied to a text and again to its       *)
(* result.                                                                 *)
(***************************************************************************)
InitSanitize ==
    /\ SEASON_EPISODES = <<2>>
    /\ STARTING_SEASON = 1
    /\ STARTING_EPISODE = 1
    /\ END_VIDEO_ID = START_VIDEO_ID
    /\ MAX_RETRIES = 1
    /\ pc = "sanitize"
    /\ video_id = START_VIDEO_ID
    /\ season = STARTING_SEASON
    /\ episode = STARTING_EPISODE
    /\ videos = <<>>
    /\ attempt = 0
    /\ response = NoResponse
    /\ video_info = None
    /\ slept = NoSleep
    /\ skipped = <<>>
    /\ calls = <<>>
    /\ file = StaleFile
    /\ saves = 0
    /\ save_failed = FALSE
    /\ download_links = <<>>
    /\ san_filename \in TitleTexts
    /\ passes = 0

\* filename = self._sanitize_filename(filename), at most twice.
SanitizeStep ==
    /\ pc = "sanitize"
    /\ passes < 2
    /\ san_filename' = SanitizeFilename(san_filename)
    /\ passes' = passes + 1
    /\ UNCHANGED <<Config, pc, video_id, season, episode, videos, attempt,
                   response, video_info, slept, skipped, calls, file, saves,
                   save_failed, download_links>>

NextSanitize == SanitizeStep

SanitizeSpec == InitSanitize /\ [][NextSanitize]_vars

(***************************************************************************)
(* Vocabulary of the properties.                                           *)
(***************************************************************************)
Range == START_VIDEO_ID..END_VIDEO_ID
NumSeasons == Len(SEASON_EPISODES)

\* How many records, and how many skips, the run holds for identifier id.
RecordsOf(id) == Cardinality({i \in DOMAIN videos : videos[i].video_id = id})
SkipsOf(id) == Cardinality({i \in DOMAIN skipped : skipped[i] = id})

\* The identifiers handed to get_video_info so far.
Attempted == {calls[i][1] : i \in DOMAIN calls}

Finished == pc \in {"returned", "done"}

IsPrefix(a, b) == Len(a) <= Len(b) /\ SubSeq(b, 1, Len(a)) = a

\* (s, e) is an episode slot of the season table.
ValidSlot(s, e) ==
    /\ 1 <= s /\ s <= NumSeasons
    /\ 1 <= e /\ e <= SEASON_EPISODES[s]

RECURSIVE SlotsBefore(_)
SlotsBefore(s) == IF s <= 1 THEN 0 ELSE SlotsBefore(s - 1) + SEASON_EPISODES[s - 1]

\* The place of slot (s, e) in the enumeration of all slots, from 1.
Rank(s, e) == SlotsBefore(s) + e
TotalSlots == SlotsBefore(NumSeasons + 1)

\* The rollover rule as the data model states it, on a position p = <<s, e>>;
\* a position beyond the table stays where it is.
NextSlot(p) ==
    IF p[1] > NumSeasons THEN p
    ELSE IF p[2] + 1 > SEASON_EPISODES[p[1]] THEN <<p[1] + 1, 1>>
    ELSE <<p[1], p[2] + 1>>

\* The position k advances after the configured start.
RECURSIVE Pos(_)
Pos(k) == IF k = 0 THEN <<STARTING_SEASON, STARTING_EPISODE>> ELSE NextSlot(Pos(k - 1))

\* How many identifiers a run of this configuration processes from offset k
\* on: a function of the configuration alone.
RECURSIVE ProcessedFrom(_)
ProcessedFrom(k) ==
    IF START_VIDEO_ID + k > END_VIDEO_ID THEN 0
    ELSE IF Pos(k)[1] > NumSeasons \/ Pos(k + 1)[1] > NumSeasons THEN 1
    ELSE 1 + ProcessedFrom(k + 1)

\* An attempt that has everything get_video_info needs.
Successful(r) ==
    /\ r.kind = "response"
    /\ r.status_code = 200
    /\ r.text_len >= MIN_HTML_LENGTH
    /\ \E i \in DOMAIN r.findall : r.findall[i] # <<>>

(***************************************************************************)
(* C1. When scrape_videos returns, every identifier of [startId, endId]    *)
(* is accounted for exactly once, by one record or by one skip.            *)
(* The statement as claimed fails: a season overflow ends the loop and     *)
(* leaves the rest of the range unattempted.                               *)
(***************************************************************************)
C1_EveryIdAccountedOnce ==
    pc = "returned" => \A id \in Range : RecordsOf(id) + SkipsOf(id) = 1

\* C1 as amended: when scrape_videos returns, every identifier that was
\* handed to get_video_info is accounted for exactly once (one record or one
\* skip, never both), and an identifier of the range that was never attempted
\* is accounted for zero times and lies after a season overflow.
C1_AttemptedAccountedOnce ==
    Finished =>
        \A id \in Range :
            /\ id \in Attempted => RecordsOf(id) + SkipsOf(id) = 1
            /\ id \notin Attempted =>
                   /\ RecordsOf(id) + SkipsOf(id) = 0
                   /\ season > NumSeasons
                   /\ \A a \in Attempted : a < id

C1_Witness ==
    /\ pc = "returned"
    /\ \E a, b, c \in Range :
           /\ RecordsOf(a) = 1 /\ SkipsOf(a) = 0
           /\ SkipsOf(b) = 1 /\ RecordsOf(b) = 0
           /\ c \notin Attempted

(***************************************************************************)
(* C2. The (season, episode) an identifier is processed with, and the set  *)
(* of identifiers processed, are functions of the configuration and the    *)
(* identifier's offset alone, whatever the fetch outcomes: the i-th call   *)
(* of get_video_info is for START_VIDEO_ID + i - 1 at Pos(i - 1), and a    *)
(* run that has ended made ProcessedFrom(0) calls.  Any two runs of one    *)
(* configuration therefore agree.                                          *)
(***************************************************************************)
C2_CursorIndependentOfOutcomes ==
    /\ \A i \in DOMAIN calls :
           calls[i] = <<START_VIDEO_ID + i - 1, Pos(i - 1)[1], Pos(i - 1)[2]>>
    /\ pc \in {"returned", "raised", "done"} => Len(calls) = ProcessedFrom(0)

C2_Witness ==
    /\ Len(calls) >= 3
    /\ pc = "attempt"
    /\ videos # <<>>
    /\ skipped # <<>>

(***************************************************************************)
(* C3. After each processed identifier the cursor advances by one episode, *)
(* rolling over to episode 1 of the next season when the incremented       *)
(* episode exceeds the season's count; so successive identifiers are       *)
(* processed at successive slots (counts [2,3] from (1,1): (1,1), (1,2),   *)
(* (2,1), (2,2), (2,3)), and the advance that overflows the table is the   *)
(* one after the last slot of the last season.                             *)
(***************************************************************************)
C3_Example == <<<<1, 1>>, <<1, 2>>, <<2, 1>>, <<2, 2>>, <<2, 3>>>>

C3_CursorEnumeratesSlots ==
    /\ \A i \in 1..(Len(calls) - 1) :
           LET s == calls[i][2]
               e == calls[i][3]
               s2 == calls[i + 1][2]
               e2 == calls[i + 1][3]
           IN  /\ s <= NumSeasons
               /\ IF e + 1 > SEASON_EPISODES[s]
                  THEN s2 = s + 1 /\ e2 = 1
                  ELSE s2 = s /\ e2 = e + 1
               /\ ValidSlot(s, e) =>
                      ValidSlot(s2, e2) /\ Rank(s2, e2) = Rank(s, e) + 1
    /\ (Finished /\ calls # <<>>) =>
           LET s == calls[Len(calls)][2]
               e == calls[Len(calls)][3]
           IN  ValidSlot(s, e) =>
                   /\ season > NumSeasons <=> Rank(s, e) = TotalSlots
                   /\ season > NumSeasons => season = NumSeasons + 1 /\ episode = 1
                   /\ season <= NumSeasons =>
                          ValidSlot(season, episode)
                          /\ Rank(season, episode) = Rank(s, e) + 1
    /\ (SEASON_EPISODES = <<2, 3>> /\ STARTING_SEASON = 1 /\ STARTING_EPISODE = 1) =>
           /\ Len(calls) <= 5
           /\ \A i \in DOMAIN calls : <<calls[i][2], calls[i][3]>> = C3_Example[i]
           /\ Len(calls) = 5 /\ Finished => season = 3

C3_Witness ==
    /\ SEASON_EPISODES = <<2, 3>> /\ STARTING_SEASON = 1 /\ STARTING_EPISODE = 1
    /\ pc = "returned"
    /\ Len(calls) = 5
    /\ season = 3 /\ episode = 1

(***************************************************************************)
(* C4. No identifier is fetched while the cursor's season exceeds the      *)
(* number of configured seasons, and scrape_videos never raises, whatever  *)
(* the configuration (a starting season beyond the table included).        *)
(* The code checks the table only after a rollover: with a starting season *)
(* beyond the table it fetches the first identifier and then raises        *)
(* IndexError on SEASON_EPISODES[season - 1].                              *)
(***************************************************************************)
C4_StopsBeyondSeasonTable ==
    /\ pc \in {"attempt", "handle"} => season <= NumSeasons
    /\ \A i \in DOMAIN calls : calls[i][2] <= NumSeasons
    /\ pc # "raised"

(***************************************************************************)
(* C5. End-to-end scenario: ids 100..102, season table [2], start (1,1),   *)
(* id 100 succeeds and id 101 fails all retries.  As claimed: id 102 is    *)
(* then processed and recorded and the result has 2 records.               *)
(***************************************************************************)
C5_Scenario ==
    /\ SEASON_EPISODES = <<2>>
    /\ STARTING_SEASON = 1 /\ STARTING_EPISODE = 1
    /\ END_VIDEO_ID = 102
    /\ RecordsOf(100) = 1
    /\ SkipsOf(101) = 1

C5_ScenarioYieldsTwoRecords ==
    (C5_Scenario /\ pc = "returned") =>
        /\ Len(videos) = 2
        /\ videos[1].video_id = 100 /\ videos[1].season = 1 /\ videos[1].episode = 1
        /\ videos[2].video_id = 102

\* C5 as amended: in that scenario id 100 is recorded at (1,1), id 101 is
\* processed at (1,2) and skipped, the advance after it overflows the
\* one-season table and ends the run: id 102 is never attempted and the
\* final result has 1 record.
C5_ScenarioHaltsAfter101 ==
    C5_Scenario =>
        /\ Finished
        /\ Len(videos) = 1
        /\ videos[1].video_id = 100 /\ videos[1].season = 1 /\ videos[1].episode = 1
        /\ calls = <<<<100, 1, 1>>, <<101, 1, 2>>>>
        /\ skipped = <<101>>
        /\ season = 2 /\ episode = 1
        /\ 102 \notin Attempted

C5_Witness ==
    /\ C5_Scenario
    /\ pc = "returned"
    /\ MAX_RETRIES = 3

(***************************************************************************)
(* C6. get_video_info makes its attempts one at a time and stops at the    *)
(* first successful one: it goes on to another attempt only after a failed *)
(* one, returns a value exactly on a successful attempt, and returns None  *)
(* only when attempt number MAX_RETRIES has failed too; every kind of      *)
(* failure ends in that None, none in an exception.  (attempt is 0-based:  *)
(* attempt + 1 requests have been made when get_video_info returns.)       *)
(***************************************************************************)
C6_AttemptsUntilFirstSuccess ==
    /\ (pc = "attempt" /\ attempt > 0) =>
           /\ ~Successful(response)
           /\ attempt < MAX_RETRIES
    /\ pc = "handle" =>
           /\ attempt + 1 <= MAX_RETRIES
           /\ video_info # None <=> Successful(response)
           /\ video_info = None => attempt + 1 = MAX_RETRIES
    /\ pc = "raised" => calls # <<>> /\ calls[Len(calls)][2] > NumSeasons

C6_Witness ==
    /\ pc = "handle"
    /\ MAX_RETRIES = 3
    /\ attempt = 2
    /\ video_info = None
    /\ response.kind = "response"
    /\ response.status_code = 200
    /\ response.text_len < MIN_HTML_LENGTH

(***************************************************************************)
(* C7. A failed extraction does not abort the run: the step that handles a *)
(* None from get_video_info leaves the result list as it is, and goes on   *)
(* to the next identifier unless the cursor has left the season table or   *)
(* the range is exhausted; it raises only for a cursor that was already    *)
(* beyond the table, where a success raises as well.                       *)
(***************************************************************************)
C7_FailureDoesNotAbort ==
    [][(pc = "handle" /\ video_info = None) =>
          /\ videos' = videos
          /\ pc' \in {"attempt", "returned", "raised"}
          /\ pc' = "raised" => season > NumSeasons
          /\ (season' <= NumSeasons /\ video_id < END_VIDEO_ID) =>
                 /\ pc' = "attempt"
                 /\ video_id' = video_id + 1
                 /\ attempt' = 0
          /\ pc' = "returned" => (season' > NumSeasons \/ video_id = END_VIDEO_ID)
      ]_vars

C7_Witness ==
    /\ pc = "attempt"
    /\ attempt = 0
    /\ videos # <<>>
    /\ skipped # <<>>
    /\ skipped[Len(skipped)] = video_id - 1

(***************************************************************************)
(* C8. The result list holds only records of identifiers of the range, in  *)
(* strictly increasing identifier order, and grows only at its end: what   *)
(* it held before a step is a prefix of what it holds after.               *)
(***************************************************************************)
C8_ResultListAscendingAppendOnly ==
    [][/\ \A i \in DOMAIN videos' : videos'[i].video_id \in Range
       /\ \A i \in DOMAIN videos', j \in DOMAIN videos' :
              i < j => videos'[i].video_id < videos'[j].video_id
       /\ IsPrefix(videos, videos')
      ]_vars

C8_Witness ==
    /\ Len(videos) >= 3
    /\ skipped # <<>>
    /\ pc = "handle"

(***************************************************************************)
(* C9. A pacing sleep separates any two consecutively processed            *)
(* identifiers, and none follows the last processed identifier, whether    *)
(* the run ends at endId or by season overflow: scrape_videos returns      *)
(* without having slept in its last step, and each call of get_video_info  *)
(* but the first comes right after a pacing sleep.                         *)
(* The code sleeps after every identifier that does not break the loop,    *)
(* the last of the range included.                                         *)
(***************************************************************************)
C9_NoPacingSleepAfterLast ==
    /\ pc = "returned" => slept = NoSleep
    /\ (pc = "attempt" /\ attempt = 0 /\ Len(calls) > 1) => slept = Pacing

(***************************************************************************)
(* C10. The link list is written exactly once per completed run, after the *)
(* loop and never during it, and holds the run's result sequence, an empty *)
(* one included.  As claimed (a save that reported an I/O failure aside):  *)
(***************************************************************************)
C10_WrittenOncePerCompletedRun ==
    /\ pc # "done" => saves = 0 /\ file = StaleFile
    /\ (pc = "done" /\ ~save_failed) => saves = 1 /\ file = FileText(videos)

\* C10 as amended: nothing is written before scrape_videos has returned; a
\* completed run with a non-empty result calls save_download_links exactly
\* once, and a save that reports no failure leaves the serialized result
\* sequence in the file; a completed run with an empty result does not call
\* it, and the earlier content of the file survives.
C10_WrittenOnceWhenNonEmpty ==
    /\ pc # "done" => saves = 0 /\ file = StaleFile /\ ~save_failed
    /\ (pc = "done" /\ videos # <<>>) =>
           /\ saves = 1
           /\ ~save_failed => file = FileText(videos)
    /\ (pc = "done" /\ videos = <<>>) =>
           saves = 0 /\ file = StaleFile /\ ~save_failed

C10_Witness ==
    /\ pc = "done"
    /\ videos = <<>>
    /\ skipped # <<>>
    /\ saves = 0
    /\ file = StaleFile

(***************************************************************************)
(* C11. Round trip: for every record sequence scrape_videos can produce,   *)
(* writing it with save_download_links and parsing the file with           *)
(* load_links yields the records' (url, filename) pairs, as many and in    *)
(* the same order.                                                         *)
(* The URL pattern is matched under re.IGNORECASE while load_links looks   *)
(* for a line starting with lower-case "https://": a URL the page spells   *)
(* "HTTPS://..." is saved and then not read back.                          *)
(***************************************************************************)
PairsOf(vs) == [i \in DOMAIN vs |-> [url |-> vs[i].url, filename |-> vs[i].filename]]

C11_RoundTrip ==
    (pc = "loaded" /\ saves = 1 /\ ~save_failed) => download_links = PairsOf(videos)

(***************************************************************************)
(* C12. Every filename get_video_info returns to the loop, and every       *)
(* record's                                                                *)
(* filename, is "S<season>-E<episode>-<title>.mp4" with no                 *)
(* filesystem-unsafe character (\ / : * ? " < > |) anywhere, and a title   *)
(* part that is non-empty, neither starts nor ends with whitespace and     *)
(* holds no two whitespace characters in a row, whether the title was      *)
(* sanitized from a selector match or is the "Unknown_Title" placeholder.  *)
(***************************************************************************)
UnsafeChars == {"\\", "/", ":", "*", "?", "\"", "<", ">", "|"}
Blank == {" ", "\t", "\n"}

CleanFilename(f, s, e) ==
    LET head == <<"S">> \o Pad2(s) \o <<"-", "E">> \o Pad2(e) \o <<"-">>
        t == SubSeq(f, Len(head) + 1, Len(f) - 4)
    IN  /\ Len(f) > Len(head) + 4
        /\ SubSeq(f, 1, Len(head)) = head
        /\ SubSeq(f, Len(f) - 3, Len(f)) = <<".", "m", "p", "4">>
        /\ \A i \in DOMAIN f : f[i] \notin UnsafeChars
        /\ t[1] \notin Blank
        /\ t[Len(t)] \notin Blank
        /\ \A i \in 1..(Len(t) - 1) : ~(t[i] \in Blank /\ t[i + 1] \in Blank)

C12_FilenamesAreClean ==
    /\ (pc = "handle" /\ video_info # None) =>
           CleanFilename(video_info[1].filename, season, episode)
    /\ \A i \in DOMAIN videos :
           CleanFilename(videos[i].filename, videos[i].season, videos[i].episode)

C12_Witness ==
    /\ videos # <<>>
    /\ response.elements = <<Some(<<"a", " ", "\n", "/">>)>>
    /\ videos[1].season = 12
    /\ videos[1].episode = 100

(***************************************************************************)
(* C13. Title sanitization is idempotent: _sanitize_filename applied to a  *)
(* text it has already sanitized returns that text unchanged.              *)
(***************************************************************************)
C13_SanitizeIdempotent ==
    [][passes >= 1 => san_filename' = san_filename]_vars

C13_Witness ==
    /\ passes = 2
    /\ san_filename = <<"a", " ", "_">>

(***************************************************************************)
(* C14. URL extraction is a first-match fold over the ordered pattern      *)
(* list: on a page that passes the status and length tests, the URL        *)
(* get_video_info returns is the first match of the lowest-indexed pattern *)
(* with a match, never a later pattern's match nor a later match of the    *)
(* winning pattern, and no URL is returned exactly when no pattern         *)
(* matches.                                                                *)
(***************************************************************************)
MatchingPatterns(fa) == {i \in DOMAIN fa : fa[i] # <<>>}

FirstMatch(fa) ==
    fa[CHOOSE i \in MatchingPatterns(fa) : \A j \in MatchingPatterns(fa) : i <= j][1]

C14_FirstMatchFold ==
    [][(pc = "attempt" /\ response'.kind = "response" /\ ~HandleRequestError(response')) =>
          IF MatchingPatterns(response'.findall) = {}
          THEN ~(pc' = "handle" /\ video_info' # None)
          ELSE /\ pc' = "handle"
               /\ video_info' # None
               /\ video_info'[1].url = FirstMatch(response'.findall)]_vars

C14_Witness ==
    /\ pc = "handle"
    /\ video_info # None
    /\ response.findall = <<<<Url1, Url2>>, <<Url2>>>>
    /\ video_info[1].url = Url1

(***************************************************************************)
(* C15. Title-extraction failure is never a retry condition or an error:   *)
(* an attempt whose response has status 200, a body of at least            *)
(* MIN_HTML_LENGTH and a URL match makes get_video_info return a result on *)
(* that attempt, with no further attempt and no backoff sleep, and with    *)
(* the title "Unknown_Title" when no selector yields text that is not      *)
(* blank.                                                                  *)
(***************************************************************************)
NoTitleFound(r) ==
    \A i \in DOMAIN r.elements :
        r.elements[i] = None \/ Strip(r.elements[i][1]) = <<>>

C15_TitleFailureIsNoRetry ==
    [][(pc = "attempt" /\ Successful(response')) =>
          /\ pc' = "handle"
          /\ video_info' # None
          /\ attempt' = attempt
          /\ slept' = NoSleep
          /\ NoTitleFound(response') =>
                video_info'[1].filename = CreateFilename(season, episode, UnknownTitle)]_vars

C15_Witness ==
    /\ pc = "handle"
    /\ Successful(response)
    /\ NoTitleFound(response)
    /\ attempt = 0
    /\ MAX_RETRIES = 2
    /\ video_info # None
    /\ video_info[1].filename = CreateFilename(season, episode, UnknownTitle)

(***************************************************************************)
(* C16. A failure while writing the link file is contained:                *)
(* save_download_links returns to main() whether the write succeeded or    *)
(* failed, and the list of records it was given is the same afterwards.    *)
(***************************************************************************)
C16_SaveFailureContained ==
    [][pc = "returned" => (pc' = "done" /\ videos' = videos)]_vars

C16_Witness ==
    /\ pc = "done"
    /\ saves = 1
    /\ save_failed
    /\ Len(videos) = 2

(***************************************************************************)
(* C17. Inside get_video_info a failed attempt that is not the last        *)
(* allowed one is followed by one backoff sleep and the next attempt, the  *)
(* sleep drawn from the timeout window if and only if the failure was a    *)
(* request timeout and from the generic window otherwise; the last         *)
(* allowed attempt and a successful attempt are followed by no backoff     *)
(* sleep and end the call, so k attempts make k-1 backoff sleeps.          *)
(***************************************************************************)
C17_BackoffPerFailedAttempt ==
    [][pc = "attempt" =>
          IF ~Successful(response') /\ attempt < MAX_RETRIES - 1
          THEN /\ pc' = "attempt"
               /\ attempt' = attempt + 1
               /\ slept' = IF response'.kind = "timeout"
                           THEN TimeoutBackoff ELSE GenericBackoff
          ELSE /\ pc' = "handle"
               /\ attempt' = attempt
               /\ slept' = NoSleep]_vars

C17_Witness ==
    /\ pc = "attempt"
    /\ attempt = 2
    /\ response.kind = "timeout"
    /\ slept = TimeoutBackoff

(***************************************************************************)
(* C18. Provided the configured start position is a slot of the season     *)
(* table and every season count is at least 1, every identifier is handed  *)
(* to get_video_info, and every record is stored, with a slot of the       *)
(* table; and a run that has ended has processed as many identifiers as    *)
(* the smaller of the size of the range and the number of slots from the   *)
(* start position to the end of the table.                                 *)
(***************************************************************************)
ValidStart ==
    /\ \A s \in DOMAIN SEASON_EPISODES : SEASON_EPISODES[s] >= 1
    /\ ValidSlot(STARTING_SEASON, STARTING_EPISODE)

SlotsFromStart == TotalSlots - Rank(STARTING_SEASON, STARTING_EPISODE) + 1

Smaller(a, b) == IF a <= b THEN a ELSE b

C18_ValidStartKeepsSlotsValid ==
    ValidStart =>
        /\ \A i \in DOMAIN calls : ValidSlot(calls[i][2], calls[i][3])
        /\ \A i \in DOMAIN videos : ValidSlot(videos[i].season, videos[i].episode)
        /\ pc \in {"attempt", "handle"} => ValidSlot(season, episode)
        /\ Finished => Len(calls) = Smaller(Cardinality(Range), SlotsFromStart)

C18_Witness ==
    /\ pc = "returned"
    /\ SEASON_EPISODES = <<2, 3>>
    /\ STARTING_SEASON = 1 /\ STARTING_EPISODE = 2
    /\ END_VIDEO_ID = START_VIDEO_ID + 4
    /\ Len(calls) = 4
    /\ Len(videos) = 3

====
